---- MODULE Spec2Model ----
(***************************************************************************)
(* SpreadsheetView (src/lib.rs): the column registry, the record store,    *)
(* the stable sort, the cursor and the enabled flag, as a state machine    *)
(* with one action per public method.                                      *)
(*                                                                         *)
(* Option<T> is modelled as a sequence: <<>> is None, <<v>> is Some(v);    *)
(* cursor_pos, an Option<(usize, usize)>, is <<>> or <<x, y>>.             *)
(* A Record<D> (a HashMap<String, D>) is a function from Keys to           *)
(* 0..n, where NoEntry (0) says the map has no entry under that key.       *)
(* Indices into records are 1-based in the sequences and 0-based wherever  *)
(* the code exposes them (cursor_pos, remove_record).                      *)
(***************************************************************************)
EXTENDS Integers, Sequences, FiniteSets, TLC

\* ------------------------------------------------------------------ bounds
MaxRecs == 2
MaxCoord == 2
MaxSortLen == 3
SortItem == 3
\* The width of usize in the model, in bits.
UsizeBits == 3

\* ------------------------------------------------------------- universes
Keys == {"name", "dept"}
ColumnDefs == {"d1", "d2"}
NoEntry == 0
NoKey == ""

\* The records whose items are at most n under "name" and at most n - 1
\* under "dept" (departments are fewer than names), each key possibly absent.
RecordsOver(n) == {r \in [Keys -> 0..n] : r["dept"] < n}

RECURSIVE SeqsUpTo(_, _)
SeqsUpTo(S, n) ==
    IF n = 0 THEN {<<>>}
    ELSE LET shorter == SeqsUpTo(S, n - 1)
         IN  shorter \cup {Append(s, e) : s \in {t \in shorter : Len(t) = n - 1}, e \in S}

\* The records handed to push_record: each key absent or holding the item 1.
RecordInputs == [Keys -> {NoEntry, 1}]

\* The iterators handed to extend_records.
ExtendInputs == SeqsUpTo(RecordInputs, MaxRecs)

VARIABLES columns, records, enabled, cursor_pos, last, inserted_before

vars == <<columns, records, enabled, cursor_pos, last, inserted_before>>

\* ---------------------------------------------------------------- helpers
None == <<>>
Some(v) == <<v>>

Min(a, b) == IF a <= b THEN a ELSE b

\* HashMap::get: Some(value) when the record has an entry under key.
Get(r, key) ==
    IF key \in DOMAIN r /\ r[key] # NoEntry THEN Some(r[key]) ELSE None

\* IndexMap::contains_key
ContainsKey(cols, key) == \E i \in 1..Len(cols) : cols[i].key = key

\* An insert that moves a key already present to the end.
Insert_MoveToEnd(cols, key, def) ==
    Append(SelectSeq(cols, LAMBDA c : c.key # key), [key |-> key, def |-> def])

\* A removal that drops the last column when the key is absent.
ShiftRemove_PopsWhenAbsent(cols, key) ==
    IF \E i \in 1..Len(cols) : cols[i].key = key
    THEN SelectSeq(cols, LAMBDA c : c.key # key)
    ELSE IF Len(cols) = 0 THEN cols ELSE SubSeq(cols, 1, Len(cols) - 1)

\* IndexMap::insert: replaces the value in place when the key is present,
\* appends the pair otherwise.
Insert(cols, key, def) ==
    IF ContainsKey(cols, key)
    THEN [i \in 1..Len(cols) |->
            IF cols[i].key = key THEN [key |-> key, def |-> def] ELSE cols[i]]
    ELSE Append(cols, [key |-> key, def |-> def])

\* IndexMap::swap_remove: the last pair takes the place of the removed one.
ShiftRemove_Swap(cols, key) ==
    IF ~(\E i \in 1..Len(cols) : cols[i].key = key) THEN cols
    ELSE [i \in 1..(Len(cols) - 1) |->
            IF cols[i].key = key THEN cols[Len(cols)] ELSE cols[i]]

\* IndexMap::shift_remove: removes the pair, keeping the others' order.
ShiftRemove(cols, key) == SelectSeq(cols, LAMBDA c : c.key # key)

\* IndexMap::pop / Vec::pop: drops the last element, if any.
DropLast(s) == IF Len(s) = 0 THEN s ELSE SubSeq(s, 1, Len(s) - 1)

\* A removal that takes the element after the one asked for, when there is
\* one.
RemoveAt_NextElement(s, index) ==
    [i \in 1..(Len(s) - 1) |-> IF i <= index + 1 /\ i < Len(s) THEN s[i] ELSE s[i + 1]]

\* Vec::remove(index), index 0-based and in bounds.
RemoveAt(s, index) ==
    [i \in 1..(Len(s) - 1) |-> IF i <= index THEN s[i] ELSE s[i + 1]]

len_columns == Len(columns)
len_records == Len(records)

\* --------------------------------------------------------------- sorting
\* Ord for Option<&D>: None is less than every Some, Some compare by value.
OptionCmp(a, b) ==
    IF a = None /\ b = None THEN "Equal"
    ELSE IF a = None THEN "Less"
    ELSE IF b = None THEN "Greater"
    ELSE IF a[1] < b[1] THEN "Less"
    ELSE IF a[1] > b[1] THEN "Greater"
    ELSE "Equal"

\* A reversal that leaves the ordering as it is.
Reverse_Ignored(o) == o

\* Ordering::reverse
Reverse(o) ==
    IF o = "Less" THEN "Greater" ELSE IF o = "Greater" THEN "Less" ELSE "Equal"

\* A comparator that sends a missing entry to the low end in both
\* directions (the reversal applied to present values only).
Compare_AbsentLow(ra, rb, key, ascending) ==
    LET a == Get(ra, key)
        b == Get(rb, key)
        o == OptionCmp(a, b)
    IN  IF ascending \/ a = None \/ b = None THEN o ELSE Reverse(o)

\* A comparator that never answers Equal: records with equal values
\* compare as Less.
Compare_TiesLess(ra, rb, key, ascending) ==
    LET o == OptionCmp(Get(ra, key), Get(rb, key))
        d == IF ascending THEN o ELSE Reverse(o)
    IN  IF d = "Equal" THEN "Less" ELSE d

\* The closure given to sort_by.
Compare(ra, rb, key, ascending) ==
    LET o == OptionCmp(Get(ra, key), Get(rb, key))
    IN  IF ascending THEN o ELSE Reverse(o)

\* An insertion that also moves the record past those it is equal to.
RECURSIVE InsertTail_PastEqual(_, _, _, _)
InsertTail_PastEqual(sorted, r, key, ascending) ==
    IF sorted = <<>> THEN <<r>>
    ELSE LET prev == sorted[Len(sorted)]
         IN  IF Compare(r, prev, key, ascending) # "Greater"
             THEN Append(InsertTail_PastEqual(DropLast(sorted), r, key, ascending), prev)
             ELSE Append(sorted, r)

\* One step of the stable sort: r, the record that follows the sorted run,
\* moves left past every record it is strictly less than, and stays after
\* those it compares equal to.
RECURSIVE InsertTail(_, _, _, _)
InsertTail(sorted, r, key, ascending) ==
    IF sorted = <<>> THEN <<r>>
    ELSE LET prev == sorted[Len(sorted)]
         IN  IF Compare(r, prev, key, ascending) = "Less"
             THEN Append(InsertTail(DropLast(sorted), r, key, ascending), prev)
             ELSE Append(sorted, r)

RECURSIVE SortPrefix(_, _, _, _)
SortPrefix(recs, n, key, ascending) ==
    IF n = 0 THEN <<>>
    ELSE InsertTail(SortPrefix(recs, n - 1, key, ascending), recs[n], key, ascending)

\* A descending sort obtained by reversing the ascending one.
SortBy_ReverseAscending(recs, key, ascending) ==
    LET up == SortPrefix(recs, Len(recs), key, TRUE)
    IN  IF ascending THEN up
        ELSE [i \in 1..Len(recs) |-> up[Len(recs) + 1 - i]]

\* self.records.sort_by(closure): the stable sort of the whole sequence.
SortBy(recs, key, ascending) == SortPrefix(recs, Len(recs), key, ascending)

\* A sort that does not look the key up in the columns.
SortedRecords_NoKeyCheck(cols, recs, key, ascending) ==
    SortBy(recs, key, ascending)

\* The records sort_records leaves: sorted when the key is a column, as
\* they were otherwise.
SortedRecords(cols, recs, key, ascending) ==
    IF ContainsKey(cols, key) THEN SortBy(recs, key, ascending) ELSE recs

\* ---------------------------------------------------------------- cursor
\* A clamp to the counts instead of the last valid indices.
CursorFor_ClampToLen(x, y, num_cols, num_recs) ==
    IF num_cols = 0 \/ num_recs = 0 THEN None
    ELSE <<Min(x, num_cols), Min(y, num_recs)>>

\* A match that tests the column count only.
CursorFor_ColumnsOnly(x, y, num_cols, num_recs) ==
    IF num_cols = 0 THEN None
    ELSE <<Min(x, num_cols - 1), IF num_recs = 0 THEN 0 ELSE Min(y, num_recs - 1)>>

\* The match in set_cursor_pos.
CursorFor(x, y, num_cols, num_recs) ==
    IF num_cols = 0 \/ num_recs = 0 THEN None
    ELSE <<Min(x, num_cols - 1), Min(y, num_recs - 1)>>

\* ------------------------------------------------------------ call record
\* last: the most recent call, its arguments, what it returned and what it
\* found; fields a call has no use for keep these defaults.
Call(op) ==
    [op |-> op, x |-> 0, y |-> 0, key |-> NoKey, ascending |-> TRUE,
     pre_records |-> <<>>, pre_columns |-> <<>>, pre_cursor |-> None,
     prev_key |-> NoKey, prev_ascending |-> TRUE,
     def |-> NoKey, index |-> 0, iter |-> <<>>, ret |-> None, width |-> <<>>]

\* IndexMap::shift_remove's result: the definition under key, if any.
RemovedDef(cols, key) ==
    IF ContainsKey(cols, key)
    THEN Some((CHOOSE c \in {cols[i] : i \in 1..Len(cols)} : c.key = key).def)
    ELSE None

\* remove_record's result: the record at index, if index is in bounds.
RemovedRecord(recs, index) ==
    IF index < Len(recs) THEN Some(recs[index + 1]) ELSE None

\* The keys present in the columns.
KeySet(cols) == {cols[i].key : i \in 1..Len(cols)}

\* inserted_before (history): the pairs <<j, k>> of keys now present such
\* that j was inserted, after its last absence, before k was.
InsertedNow(before, cols, key) ==
    IF key \in KeySet(cols) THEN before
    ELSE before \cup {<<j, key>> : j \in KeySet(cols)}

Forgotten(before, gone) ==
    {p \in before : p[1] \notin gone /\ p[2] \notin gone}

\* ------------------------------------------------------------------- Init
Init ==
    /\ columns = <<>>
    /\ records = <<>>
    /\ enabled = TRUE
    /\ cursor_pos = None
    /\ last = Call("new")
    /\ inserted_before = {}

\* ---------------------------------------------------------------- actions
PushColumn(key, column_def) ==
    /\ columns' = Insert(columns, key, column_def)
    /\ inserted_before' = InsertedNow(inserted_before, columns, key)
    /\ last' = [Call("push_column") EXCEPT
                  !.key = key, !.def = column_def, !.pre_columns = columns,
                  !.pre_records = records, !.pre_cursor = cursor_pos,
                  !.prev_key =
                      IF last.op = "remove_column" /\ last.ret # None
                      THEN last.key ELSE NoKey]
    /\ UNCHANGED <<records, enabled, cursor_pos>>

RemoveColumn(key) ==
    /\ columns' = ShiftRemove(columns, key)
    /\ inserted_before' = Forgotten(inserted_before, {key})
    /\ last' = [Call("remove_column") EXCEPT
                  !.key = key, !.ret = RemovedDef(columns, key),
                  !.pre_columns = columns, !.pre_records = records,
                  !.pre_cursor = cursor_pos,
                  !.prev_key = IF last.op = "remove_column" THEN last.key ELSE NoKey]
    /\ UNCHANGED <<records, enabled, cursor_pos>>

PopColumn ==
    /\ columns' = DropLast(columns)
    /\ inserted_before' = Forgotten(inserted_before, KeySet(columns) \ KeySet(columns'))
    /\ last' = [Call("pop_column") EXCEPT
                  !.pre_records = records, !.pre_cursor = cursor_pos]
    /\ UNCHANGED <<records, enabled, cursor_pos>>

\* A push that drops the record while the view has no column.
PushRecord_NeedsColumns(record) ==
    /\ Len(records) < MaxRecs
    /\ records' = IF Len(columns) = 0 THEN records ELSE Append(records, record)
    /\ last' = [Call("push_record") EXCEPT
                  !.pre_records = records, !.pre_columns = columns,
                  !.pre_cursor = cursor_pos]
    /\ UNCHANGED <<columns, enabled, cursor_pos, inserted_before>>

PushRecord(record) ==
    /\ Len(records) < MaxRecs
    /\ records' = Append(records, record)
    /\ last' = [Call("push_record") EXCEPT
                  !.pre_records = records, !.pre_columns = columns,
                  !.pre_cursor = cursor_pos]
    /\ UNCHANGED <<columns, enabled, cursor_pos, inserted_before>>

\* An extension that appends the iterator's records last to first.
ExtendRecords_Reversed(iter) ==
    /\ Len(records) + Len(iter) <= MaxRecs
    /\ records' = records \o [i \in 1..Len(iter) |-> iter[Len(iter) + 1 - i]]
    /\ last' = [Call("extend_records") EXCEPT
                  !.iter = iter, !.pre_records = records,
                  !.pre_columns = columns, !.pre_cursor = cursor_pos]
    /\ UNCHANGED <<columns, enabled, cursor_pos, inserted_before>>

ExtendRecords(iter) ==
    /\ Len(records) + Len(iter) <= MaxRecs
    /\ records' = records \o iter
    /\ last' = [Call("extend_records") EXCEPT
                  !.iter = iter, !.pre_records = records,
                  !.pre_columns = columns, !.pre_cursor = cursor_pos]
    /\ UNCHANGED <<columns, enabled, cursor_pos, inserted_before>>

\* A pop that clamps the cursor to the records left.
PopRecord_Reclamps ==
    /\ records' = DropLast(records)
    /\ cursor_pos' = IF cursor_pos = None THEN None
                     ELSE CursorFor(cursor_pos[1], cursor_pos[2],
                                    Len(columns), Len(records'))
    /\ last' = [Call("pop_record") EXCEPT
                  !.pre_columns = columns, !.pre_cursor = cursor_pos]
    /\ UNCHANGED <<columns, enabled, inserted_before>>

PopRecord ==
    /\ records' = DropLast(records)
    /\ last' = [Call("pop_record") EXCEPT
                  !.pre_columns = columns, !.pre_cursor = cursor_pos]
    /\ UNCHANGED <<columns, enabled, cursor_pos, inserted_before>>

RemoveRecord(index) ==
    /\ records' = IF index < Len(records) THEN RemoveAt(records, index) ELSE records
    /\ last' = [Call("remove_record") EXCEPT
                  !.index = index, !.ret = RemovedRecord(records, index),
                  !.pre_records = records, !.pre_columns = columns,
                  !.pre_cursor = cursor_pos]
    /\ UNCHANGED <<columns, enabled, cursor_pos, inserted_before>>

ClearRecords ==
    /\ records' = <<>>
    /\ last' = [Call("clear_records") EXCEPT
                  !.pre_columns = columns, !.pre_cursor = cursor_pos]
    /\ UNCHANGED <<columns, enabled, cursor_pos, inserted_before>>

SortRecords(key, ascending) ==
    /\ records' = SortedRecords(columns, records, key, ascending)
    /\ last' = [Call("sort_records") EXCEPT
                  !.key = key, !.ascending = ascending,
                  !.pre_records = records, !.pre_columns = columns,
                  !.pre_cursor = cursor_pos,
                  !.prev_key = IF last.op = "sort_records" THEN last.key ELSE NoKey,
                  !.prev_ascending =
                      IF last.op = "sort_records" THEN last.ascending ELSE TRUE]
    /\ UNCHANGED <<columns, enabled, cursor_pos, inserted_before>>

SetCursorPos(x, y) ==
    /\ cursor_pos' = CursorFor(x, y, len_columns, len_records)
    /\ last' = [Call("set_cursor_pos") EXCEPT
                  !.x = x, !.y = y, !.pre_cursor = cursor_pos]
    /\ UNCHANGED <<columns, records, enabled, inserted_before>>

Disable ==
    /\ enabled' = FALSE
    /\ last' = [Call("disable") EXCEPT !.pre_cursor = cursor_pos]
    /\ UNCHANGED <<columns, records, cursor_pos, inserted_before>>

Enable ==
    /\ enabled' = TRUE
    /\ last' = [Call("enable") EXCEPT !.pre_cursor = cursor_pos]
    /\ UNCHANGED <<columns, records, cursor_pos, inserted_before>>

SetEnabled(b) ==
    /\ enabled' = b
    /\ last' = [Call("set_enabled") EXCEPT !.pre_cursor = cursor_pos]
    /\ UNCHANGED <<columns, records, cursor_pos, inserted_before>>

Next ==
    \/ \E key \in Keys, column_def \in ColumnDefs : PushColumn(key, column_def)
    \/ \E key \in Keys : RemoveColumn(key)
    \/ PopColumn
    \/ \E record \in RecordInputs : PushRecord(record)
    \/ \E iter \in ExtendInputs : ExtendRecords(iter)
    \/ PopRecord
    \/ \E index \in 0..MaxRecs : RemoveRecord(index)
    \/ ClearRecords
    \/ \E key \in Keys, ascending \in BOOLEAN : SortRecords(key, ascending)
    \/ \E x \in 0..MaxCoord, y \in 0..MaxCoord : SetCursorPos(x, y)
    \/ Disable
    \/ Enable
    \/ \E b \in BOOLEAN : SetEnabled(b)

Spec == Init /\ [][Next]_vars

\* ------------------------------------------- the sort, on drawn records
\* Both columns registered, any records of up to MaxSortLen rows pushed.
InitSort ==
    /\ columns = <<[key |-> "name", def |-> "d1"], [key |-> "dept", def |-> "d1"]>>
    /\ records \in SeqsUpTo(RecordsOver(SortItem), MaxSortLen)
    /\ enabled = TRUE
    /\ cursor_pos = None
    /\ last = Call("new")
    /\ inserted_before = {<<"name", "dept">>}

NextSort == \E key \in Keys, ascending \in BOOLEAN : SortRecords(key, ascending)

SpecSort == InitSort /\ [][NextSort]_vars

\* ------------------------------------- the columns, over three keys
ColumnKeys == Keys \cup {"city"}

\* A new view, or one with a record pushed.
InitColumns ==
    /\ columns = <<>>
    /\ records \in {<<>>, <<[name |-> 1, dept |-> NoEntry]>>}
    /\ enabled = TRUE
    /\ cursor_pos = None
    /\ last = Call("new")
    /\ inserted_before = {}

NextColumns ==
    \/ \E key \in ColumnKeys, column_def \in ColumnDefs : PushColumn(key, column_def)
    \/ \E key \in ColumnKeys : RemoveColumn(key)
    \/ PopColumn
    \/ \E x \in 0..MaxCoord, y \in 0..MaxCoord : SetCursorPos(x, y)

SpecColumns == InitColumns /\ [][NextColumns]_vars

\* ------------------------------------------------- ColumnWidth::bounds
UsizeMax == 2 ^ UsizeBits - 1
Usize == 0..UsizeMax

\* enum ColumnWidth; a and b are the variant's fields, 0 where it has none.
Width(tag, a, b) == [tag |-> tag, a |-> a, b |-> b]

ColumnWidths ==
    {Width("Auto", 0, 0)}
        \cup {Width(tag, n, 0) : tag \in {"Min", "Max", "Fixed"}, n \in Usize}
        \cup {Width("Bound", m, d) : m \in Usize, d \in Usize}

\* A call that returned (min_width, max_width), or one that panicked.
Returned(min_width, max_width) ==
    [panicked |-> FALSE, min |-> min_width, max |-> max_width]
Panicked == [panicked |-> TRUE, min |-> 0, max |-> None]

\* min_width + delta on usize: the sum when it fits; when it does not, a
\* panic in a build with overflow checks and the wrapped sum in one without.
AddOutcomes(m, d) ==
    IF m + d <= UsizeMax THEN {Returned(m, Some(m + d))}
    ELSE {Panicked, Returned(m, Some((m + d) % (UsizeMax + 1)))}

\* ColumnWidth::bounds: the outcomes the call can have.
BoundsOutcomes(w) ==
    IF w.tag = "Auto" THEN {Returned(0, None)}
    ELSE IF w.tag = "Min" THEN {Returned(w.a, None)}
    ELSE IF w.tag = "Max" THEN {Returned(0, Some(w.a))}
    ELSE IF w.tag = "Bound" THEN AddOutcomes(w.a, w.b)
    ELSE {Returned(w.a, Some(w.a))}

Bounds(w) ==
    /\ \E r \in BoundsOutcomes(w) :
          last' = [Call("bounds") EXCEPT !.width = w, !.ret = r]
    /\ UNCHANGED <<columns, records, enabled, cursor_pos, inserted_before>>

NextWidth == \E w \in ColumnWidths : Bounds(w)

SpecWidth == Init /\ [][NextWidth]_vars

\* =================================================================== claims
Positioned == cursor_pos # None

\* C1: whenever the cursor is present as (col, row), col < len_columns()
\* and row < len_records(), in every state the public operations reach.
C1_CursorInBounds ==
    Positioned => cursor_pos[1] < len_columns /\ cursor_pos[2] < len_records

\* C2: with no columns or no records the cursor is Absent, in every state
\* the public operations reach.
C2_AbsentWhenEmpty ==
    (len_columns = 0 \/ len_records = 0) => cursor_pos = None

\* C3: with at least one column and one record the cursor is Positioned,
\* also right after the pushes that made the counts positive.
C3_PositionedWhenNonEmpty ==
    (len_columns > 0 /\ len_records > 0) => Positioned

\* C4: set_cursor_pos(x, y) with C > 0 columns and R > 0 records leaves the
\* cursor at (min(x, C-1), min(y, R-1)).
C4_SetCursorClamps ==
    (last.op = "set_cursor_pos" /\ len_columns > 0 /\ len_records > 0)
        => cursor_pos = <<Min(last.x, len_columns - 1), Min(last.y, len_records - 1)>>

\* C4 witness: a call with both coordinates past the last index, clamped.
C4_Witness ==
    /\ last.op = "set_cursor_pos"
    /\ len_columns > 0 /\ len_records > 0
    /\ last.x > len_columns - 1 /\ last.y > len_records - 1
    /\ cursor_pos = <<len_columns - 1, len_records - 1>>

\* C5: set_cursor_pos(x, y) with no columns or no records leaves the cursor
\* Absent for every x, y and every earlier cursor; with one record,
\* set_cursor_pos(0, 0) gives Absent without a column and (0, 0) with one.
C5_SetCursorOnEmpty ==
    /\ (last.op = "set_cursor_pos" /\ (len_columns = 0 \/ len_records = 0))
          => cursor_pos = None
    /\ (last.op = "set_cursor_pos" /\ last.x = 0 /\ last.y = 0 /\ len_records = 1)
          => cursor_pos = IF len_columns = 0 THEN None ELSE <<0, 0>>

\* C5 witness: one record, no column, a cursor that was Positioned before
\* the call and is Absent after it.
C5_Witness ==
    /\ last.op = "set_cursor_pos"
    /\ len_columns = 0 /\ len_records = 1
    /\ last.pre_cursor # None
    /\ cursor_pos = None

\* C6: while the view is disabled, set_cursor_pos(x, y) leaves cursor_pos
\* as it was before the call.
C6_DisabledSetCursorNoOp ==
    (last.op = "set_cursor_pos" /\ ~enabled) => cursor_pos = last.pre_cursor

\* ------------------------------------------------------------ sort claims
Sorted == last.op = "sort_records"

\* The records of recs whose value at key is v, in their order in recs.
WithValue(recs, key, v) == SelectSeq(recs, LAMBDA r : Get(r, key) = v)

\* C7: sort_records(k, ascending) is stable in both directions: the records
\* that share a value at k (or all lack one) keep their relative order.
C7_SortStable ==
    Sorted =>
        \A i \in 1..Len(last.pre_records) :
            LET v == Get(last.pre_records[i], last.key)
            IN  WithValue(records, last.key, v) = WithValue(last.pre_records, last.key, v)

\* C7 witness: a descending sort that moved a record and left two different
\* records that both lack the key in the order they had before it.
C7_Witness ==
    /\ Sorted /\ ~last.ascending
    /\ records # last.pre_records
    /\ \E i, j, a, b \in 1..Len(records) :
          /\ i < j /\ a < b
          /\ records[i] # records[j]
          /\ Get(records[i], last.key) = None
          /\ Get(records[j], last.key) = None
          /\ last.pre_records[a] = records[i]
          /\ last.pre_records[b] = records[j]

Lacks(r, key) == Get(r, key) = None

\* C8 as stated: after sort_records(k, ascending), k a column, every record
\* lacking a value at k is at a lower row index than every record having
\* one, for both directions.
C8_AbsentFirstBothDirections ==
    (Sorted /\ ContainsKey(columns, last.key)) =>
        \A i, j \in 1..Len(records) :
            (Lacks(records[i], last.key) /\ ~Lacks(records[j], last.key)) => i < j

\* C8 amended: a record lacking a value at k compares as less than one
\* having it: the records lacking one come first after an ascending sort
\* and last after a descending sort.
C8_AbsentIsLeast ==
    (Sorted /\ ContainsKey(columns, last.key)) =>
        \A i, j \in 1..Len(records) :
            (Lacks(records[i], last.key) /\ ~Lacks(records[j], last.key))
                => IF last.ascending THEN i < j ELSE j < i

\* C8 witness: a descending sort that moved a record lacking the key behind
\* one having it.
C8_Witness ==
    /\ Sorted /\ ~last.ascending /\ ContainsKey(columns, last.key)
    /\ records # last.pre_records
    /\ \E i, j \in 1..Len(records) :
          j < i /\ Lacks(records[i], last.key) /\ ~Lacks(records[j], last.key)

\* recs is in non-decreasing order of the values at key.
OrderedBy(recs, key) ==
    \A i, j \in 1..Len(recs) :
        i < j => OptionCmp(Get(recs[i], key), Get(recs[j], key)) # "Greater"

\* recs is ordered by key `major`, and by key `minor` among equal `major`.
OrderedByThen(recs, major, minor) ==
    /\ OrderedBy(recs, major)
    /\ \A i, j \in 1..Len(recs) :
          (i < j /\ Get(recs[i], major) = Get(recs[j], major))
              => OptionCmp(Get(recs[i], minor), Get(recs[j], minor)) # "Greater"

\* The end-to-end scenario: Amy, Bob, Cid are the items 1, 2, 3 under
\* "name", A and B the items 1, 2 under "dept".
BobB == [name |-> 2, dept |-> 2]
AmyA == [name |-> 1, dept |-> 1]
CidA == [name |-> 3, dept |-> 1]
Pushed == <<BobB, AmyA, CidA>>

\* Two ascending sorts in a row: sort_records(prev_key, true), then
\* sort_records(key, true), both keys columns.
TwoAscendingSorts ==
    /\ Sorted /\ last.ascending
    /\ last.prev_key # NoKey /\ last.prev_ascending
    /\ ContainsKey(columns, last.key) /\ ContainsKey(columns, last.prev_key)

ScenarioSorts ==
    /\ TwoAscendingSorts
    /\ last.prev_key = "dept" /\ last.key = "name"
    /\ last.pre_records = SortBy(Pushed, "dept", TRUE)

\* C9 as stated: sort_records(k1, true) then sort_records(k2, true) leaves
\* the records ordered by k1 and by k2 within each k1 group; the scenario
\* sorted by dept then by name gives [Amy/A, Cid/A, Bob/B].
C9_SecondSortOnlyBreaksTies ==
    /\ TwoAscendingSorts => OrderedByThen(records, last.prev_key, last.key)
    /\ ScenarioSorts => records = <<AmyA, CidA, BobB>>

\* C9 amended: sort_records(k1, true) then sort_records(k2, true) leaves
\* the records ordered by k2, and by k1 within each group of equal k2; the
\* scenario sorted by dept then by name gives [Amy/A, Bob/B, Cid/A].
C9_LastSortIsPrimary ==
    /\ TwoAscendingSorts => OrderedByThen(records, last.key, last.prev_key)
    /\ ScenarioSorts => records = <<AmyA, BobB, CidA>>

\* C9 witness: the scenario, after its second sort.
C9_Witness ==
    /\ ScenarioSorts
    /\ last.pre_records = <<AmyA, CidA, BobB>>
    /\ records = <<AmyA, BobB, CidA>>

\* C10: sort_records(key, ascending) with a key that is no column leaves
\* the records, the columns and the cursor as they were.
C10_UnknownKeyNoOp ==
    (Sorted /\ ~ContainsKey(last.pre_columns, last.key)) =>
        /\ records = last.pre_records
        /\ columns = last.pre_columns
        /\ cursor_pos = last.pre_cursor

\* C10 witness: a descending sort on a key that is no column while a record
\* has an entry under it and a sort by it would have moved the records.
C10_Witness ==
    /\ Sorted /\ ~last.ascending
    /\ ~ContainsKey(columns, last.key)
    /\ len_columns > 0 /\ Positioned
    /\ \E i \in 1..Len(records) : ~Lacks(records[i], last.key)
    /\ SortBy(records, last.key, last.ascending) # records
    /\ records = last.pre_records

\* -------------------------------------------------- record store claims
\* C11: remove_record(i) with i >= len_records() returns None and leaves
\* the records as they were; with i < len_records() it returns the record
\* that was at index i, the count drops by one, the records before i stay
\* and each record at j > i moves to j - 1.
C11_RemoveRecord ==
    last.op = "remove_record" =>
        LET pre == last.pre_records
            i   == last.index
        IN  IF i >= Len(pre)
            THEN last.ret = None /\ records = pre
            ELSE /\ last.ret = Some(pre[i + 1])
                 /\ Len(records) = Len(pre) - 1
                 /\ \A j \in 0..(i - 1) : records[j + 1] = pre[j + 1]
                 /\ \A j \in (i + 1)..(Len(pre) - 1) : records[j] = pre[j + 1]

\* C11 witness: the first of several different records removed, the next
\* one now at index 0.
C11_Witness ==
    /\ last.op = "remove_record" /\ last.index = 0
    /\ Len(last.pre_records) >= 2
    /\ last.pre_records[1] # last.pre_records[2]
    /\ last.ret = Some(last.pre_records[1])
    /\ records[1] = last.pre_records[2]

\* ------------------------------------------------------- column claims
\* C12: the columns iterate in the order in which the keys now present
\* were inserted, a key removed and inserted again counting from its new
\* insertion; a removal leaves the other columns in their relative order.
C12_ColumnOrder ==
    /\ \A i, j \in 1..Len(columns) :
          i < j <=> <<columns[i].key, columns[j].key>> \in inserted_before
    /\ last.op = "remove_column" =>
          \A a, b \in 1..Len(last.pre_columns) :
              (a < b /\ last.pre_columns[a].key # last.key
                     /\ last.pre_columns[b].key # last.key)
                  => \E i, j \in 1..Len(columns) :
                        /\ i < j
                        /\ columns[i] = last.pre_columns[a]
                        /\ columns[j] = last.pre_columns[b]

\* C12 witness: a key removed and pushed again right away, now the last of
\* three columns.
C12_Witness ==
    /\ last.op = "push_column"
    /\ last.prev_key = last.key
    /\ Len(columns) = 3
    /\ columns[3].key = last.key
    /\ <<columns[1].key, columns[2].key>> \in inserted_before

\* C13: push_column(key, def) with key present replaces that column's
\* definition where it stands, the count and the other columns unchanged;
\* with a new key it appends the column; no two columns share a key.
C13_PushColumn ==
    /\ \A i, j \in 1..Len(columns) : columns[i].key = columns[j].key => i = j
    /\ last.op = "push_column" =>
          LET pre == last.pre_columns
              new == [key |-> last.key, def |-> last.def]
          IN  IF \E i \in 1..Len(pre) : pre[i].key = last.key
              THEN /\ Len(columns) = Len(pre)
                   /\ \A i \in 1..Len(pre) :
                         columns[i] = IF pre[i].key = last.key THEN new ELSE pre[i]
              ELSE /\ Len(columns) = Len(pre) + 1
                   /\ columns[Len(columns)] = new
                   /\ \A i \in 1..Len(pre) : columns[i] = pre[i]

\* C13 witness: the first of three columns given another definition,
\* still the first.
C13_Witness ==
    /\ last.op = "push_column"
    /\ Len(last.pre_columns) = 3
    /\ last.pre_columns[1].key = last.key
    /\ last.pre_columns[1].def # last.def
    /\ columns[1] = [key |-> last.key, def |-> last.def]
    /\ Len(columns) = 3

\* C14: remove_column(key) with key absent returns None and leaves the
\* columns, the records and the cursor as they were; with key present it
\* returns its definition and the key is gone, so a second removal of the
\* same key right after returns None and changes nothing.
C14_RemoveColumn ==
    last.op = "remove_column" =>
        LET pre  == last.pre_columns
            held == {pre[i] : i \in 1..Len(pre)}
        IN  /\ (\A c \in held : c.key # last.key) =>
                  /\ last.ret = None
                  /\ columns = pre
                  /\ records = last.pre_records
                  /\ cursor_pos = last.pre_cursor
            /\ (\E c \in held : c.key = last.key) =>
                  /\ \E c \in held : c.key = last.key /\ last.ret = Some(c.def)
                  /\ \A i \in 1..Len(columns) : columns[i].key # last.key
            /\ last.prev_key = last.key =>
                  last.ret = None /\ columns = pre

\* C14 witness: the same key removed a second time, from a view that has
\* columns, a record and a cursor: None, and all as before.
C14_Witness ==
    /\ last.op = "remove_column"
    /\ last.prev_key = last.key
    /\ last.ret = None
    /\ Len(columns) >= 2 /\ Len(records) >= 1 /\ cursor_pos # None
    /\ columns = last.pre_columns

\* ------------------------------------------------------ ColumnWidth claim
\* C15: bounds() returns, over the whole usize range of the fields:
\* (min, Some(min + delta)) with max >= min for Bound(min, delta), never
\* wrapping or failing; (n, Some(n)) for Fixed(n); (0, None) for Auto;
\* (n, None) for Min(n); (0, Some(n)) for Max(n).
C15_BoundsTotal ==
    last.op = "bounds" =>
        LET w == last.width
            r == last.ret
        IN  /\ ~r.panicked
            /\ w.tag = "Bound" =>
                  r.min = w.a /\ r.max = Some(w.a + w.b) /\ r.max[1] >= r.min
            /\ w.tag = "Fixed" => r.min = w.a /\ r.max = Some(w.a)
            /\ w.tag = "Auto" => r.min = 0 /\ r.max = None
            /\ w.tag = "Min" => r.min = w.a /\ r.max = None
            /\ w.tag = "Max" => r.min = 0 /\ r.max = Some(w.a)

\* ------------------------------------------------------- frame claims
RecordOps ==
    {"push_record", "extend_records", "pop_record", "remove_record",
     "clear_records", "sort_records"}
ColumnOps == {"push_column", "remove_column", "pop_column"}

\* C16: the record operations leave the columns and their order as they
\* were, the column operations leave the records as they were, and
\* push_record adds one record whatever the columns are.
C16_IndependentStores ==
    /\ last.op \in RecordOps => columns = last.pre_columns
    /\ last.op \in ColumnOps => records = last.pre_records
    /\ last.op = "push_record" => Len(records) = Len(last.pre_records) + 1

\* C16 witness: a record with an entry pushed into a view without columns,
\* now its last record.
C16_Witness ==
    /\ last.op = "push_record"
    /\ len_columns = 0
    /\ len_records = Len(last.pre_records) + 1
    /\ \E key \in Keys : Get(records[len_records], key) # None

\* ------------------------------------------------- sort claims, continued
\* How many times r occurs in recs.
Occurrences(recs, r) == Cardinality({i \in 1..Len(recs) : recs[i] = r})

\* C17: after sort_records(k, ascending), k a column, the records are a
\* permutation of those before the call and, over the records that have a
\* value at k, non-decreasing in row index when ascending and
\* non-increasing when not.
C17_SortedPermutation ==
    (Sorted /\ ContainsKey(columns, last.key)) =>
        /\ Len(records) = Len(last.pre_records)
        /\ \A i \in 1..Len(records) :
              Occurrences(records, records[i]) = Occurrences(last.pre_records, records[i])
        /\ \A i, j \in 1..Len(records) :
              (i < j /\ ~Lacks(records[i], last.key) /\ ~Lacks(records[j], last.key))
                  => IF last.ascending
                     THEN records[i][last.key] <= records[j][last.key]
                     ELSE records[i][last.key] >= records[j][last.key]

\* C17 witness: a descending sort that moved records, three different
\* values at the key now in decreasing order.
C17_Witness ==
    /\ Sorted /\ ~last.ascending /\ ContainsKey(columns, last.key)
    /\ records # last.pre_records
    /\ Len(records) = 3
    /\ \A i \in 1..3 : ~Lacks(records[i], last.key)
    /\ records[1][last.key] > records[2][last.key]
    /\ records[2][last.key] > records[3][last.key]

\* C20: sort_records(k, d) called twice in a row leaves the records in the
\* order the first call left them, for every key and both directions.
C20_SortIdempotent ==
    (Sorted /\ last.prev_key = last.key /\ last.prev_ascending = last.ascending)
        => records = last.pre_records

\* C20 witness: a second descending sort by the same key, over records
\* that tie at the key, differ elsewhere and differ at the key from a third.
C20_Witness ==
    /\ Sorted /\ ~last.ascending
    /\ last.prev_key = last.key /\ ~last.prev_ascending
    /\ records = last.pre_records
    /\ \E i, j, l \in 1..Len(records) :
          /\ i < j
          /\ records[i] # records[j]
          /\ Get(records[i], last.key) = Get(records[j], last.key)
          /\ Get(records[l], last.key) # Get(records[i], last.key)

\* ------------------------------------------- record store, continued
\* The records after push_record on each record of iter in turn.
RECURSIVE PushedInTurn(_, _)
PushedInTurn(recs, iter) ==
    IF iter = <<>> THEN recs
    ELSE PushedInTurn(Append(recs, Head(iter)), Tail(iter))

\* C18: extend_records(iter) leaves the earlier records at their indices
\* and appends the iterator's records after them in the order it yields
\* them: the state push_record on each record in turn would give.
C18_ExtendRecords ==
    last.op = "extend_records" =>
        /\ Len(records) = Len(last.pre_records) + Len(last.iter)
        /\ \A i \in 1..Len(last.pre_records) : records[i] = last.pre_records[i]
        /\ \A i \in 1..Len(last.iter) :
              records[Len(last.pre_records) + i] = last.iter[i]
        /\ records = PushedInTurn(last.pre_records, last.iter)
        /\ columns = last.pre_columns
        /\ cursor_pos = last.pre_cursor

\* C18 witness: an iterator of two different records, both appended in
\* its order.
C18_Witness ==
    /\ last.op = "extend_records"
    /\ Len(last.iter) = 2
    /\ last.iter[1] # last.iter[2]
    /\ records = last.pre_records \o last.iter

\* C19: only set_cursor_pos writes cursor_pos: after any other operation
\* the cursor is what it was before it, through a sort and through a
\* structural mutation alike.
C19_CursorFrame ==
    last.op \in (RecordOps \cup ColumnOps \cup {"enable", "disable", "set_enabled"})
        => cursor_pos = last.pre_cursor

\* C19 witness: the last record popped under a cursor that stays on its
\* row.
C19_Witness ==
    /\ last.op = "pop_record"
    /\ cursor_pos # None
    /\ cursor_pos[2] >= len_records
    /\ cursor_pos = last.pre_cursor

====
